---- MODULE Spec2Model ----
(***************************************************************************)
(* Model of the LED Control (LEDC) peripheral abstraction, src/ledc.rs:    *)
(* resource tokens, the Peripheral aggregate, Timer, Channel, the PwmPin   *)
(* implementation of Channel and the process-wide FADE_FUNC_INSTALLED      *)
(* mutex.  The vendor driver (ledc_timer_config, ledc_channel_config,      *)
(* ledc_fade_func_install, ledc_set_duty_and_update) is an external        *)
(* collaborator: each call returns ESP_OK or an error code chosen          *)
(* nondeterministically and changes the hardware only when it returns      *)
(* ESP_OK.                                                                 *)
(***************************************************************************)
EXTENDS Integers, FiniteSets, Sequences, TLC

\* ---------------------------------------------------------------- bounds
NumThreads == 2
NumTimers == 1
NumChannels == 2
NumPins == 2
MaxDutySample == 0

\* ------------------------------------------------------ program constants
HPOINT == 0
DutyMAX == 255

Threads == 1..NumThreads
\* TIMERn / CHANNELn token types; the number is what T::timer() / C::channel()
\* returns for the type.
TimerTokens == 0..(NumTimers - 1)
ChannelTokens == 0..(NumChannels - 1)
Pins == 1..NumPins
\* Timer and Channel values live in caller-owned places ("slots").
TimerSlots == 1..NumTimers
ChannelSlots == 1..NumChannels

SpeedModes == {"LEDC_LOW_SPEED_MODE", "LEDC_HIGH_SPEED_MODE"}
Frequencies == {1000}
DutyInputs == (0..MaxDutySample) \cup {DutyMAX}
DriverResults == {"ESP_OK", "ESP_FAIL"}

None == 0 - 1
NoTimer == [live |-> FALSE]
NoChannel == [live |-> FALSE]
NoFrame == [active |-> FALSE]
NoOp == [op |-> "none", slot |-> None, token |-> None, arg |-> None,
         ret |-> "none", val |-> None]

VARIABLES
    registryCreated,      \* Peripheral::new() has been called
    callerTimers,         \* timer tokens held by the caller (Peripheral fields)
    callerChannels,       \* channel tokens held by the caller
    callerPins,           \* output pins held by the caller
    timers,               \* live Timer values
    channels,             \* live Channel values
    installed,            \* value inside FADE_FUNC_INSTALLED
    lockHolder,           \* thread holding the FADE_FUNC_INSTALLED mutex
    pc,                   \* position of each thread inside Channel::new
    frame,                \* locals of each thread's running Channel::new, and
                          \* whether the call has installed the fade function
    hwTimer,              \* driver/hardware state of each timer unit
    hwChannel,            \* driver/hardware state of each channel unit
    fadeCalls,            \* number of ledc_fade_func_install invocations
    fadeFails,            \* number of those that returned an error
    lastSet,              \* per Channel: duty last asked for (0 at creation)
    lastCommit,           \* per Channel: operation whose commit the hardware took last
    commitFailed,         \* per Channel: some commit of the Channel has failed
    lastOp,               \* the operation step taken last and its result
    lastCalls             \* driver calls issued by that step

vars == <<registryCreated, callerTimers, callerChannels, callerPins, timers,
          channels, installed, lockHolder, pc, frame, hwTimer, hwChannel,
          fadeCalls, fadeFails, lastSet, lastCommit, commitFailed, lastOp,
          lastCalls>>

ownership == <<registryCreated, callerTimers, callerChannels, callerPins>>
fadeState == <<installed, lockHolder, fadeCalls, fadeFails>>
control == <<pc, frame>>
ghost == <<lastSet, lastCommit, commitFailed>>

\* ------------------------------------------------------------- helpers
\* esp!(..): ESP_OK becomes Ok(()), any other code becomes Err(EspError).
esp(code) == IF code = "ESP_OK" THEN "Ok" ELSE "Err"

\* `duty as u32`: zero-extension of a u8, the 8 bits of the Duty are kept.
AsU32(v) == v % (DutyMAX + 1)

Min(S) == CHOOSE x \in S : \A y \in S : x <= y

FreeTimerSlots == {s \in TimerSlots : ~timers[s].live}
FreeChannelSlots == {s \in ChannelSlots : ~channels[s].live}

\* A Timer is borrowed (&'a Timer<T>) by every live Channel built against it
\* and by every Channel::new call still running with it.
Borrowers(ts) ==
    {c \in ChannelSlots : channels[c].live /\ channels[c].timer = ts}
InFlightBorrowers(ts) ==
    {th \in Threads : frame[th].active /\ frame[th].timer = ts}
Borrowed(ts) == Borrowers(ts) # {} \/ InFlightBorrowers(ts) # {}

\* lastOp: operation, the Timer/Channel place it acted on, the token involved,
\* its argument, "Ok"/"Err" (or the position reached inside Channel::new), and
\* the value carried by an Ok.
Op(name, slot, token, arg, ret, val) ==
    [op |-> name, slot |-> slot, token |-> token, arg |-> arg, ret |-> ret,
     val |-> val]

Call(fn, args, res) == [fn |-> fn, args |-> args, res |-> res]

\* --------------------------------------------------------------- Init
Init ==
    /\ registryCreated = FALSE
    /\ callerTimers = {}
    /\ callerChannels = {}
    /\ callerPins = Pins
    /\ timers = [s \in TimerSlots |-> NoTimer]
    /\ channels = [s \in ChannelSlots |-> NoChannel]
    /\ installed = FALSE
    /\ lockHolder = None
    /\ pc = [th \in Threads |-> "idle"]
    /\ frame = [th \in Threads |-> NoFrame]
    /\ hwTimer = [t \in TimerTokens |-> [configured |-> FALSE]]
    /\ hwChannel = [c \in ChannelTokens |-> [configured |-> FALSE]]
    /\ fadeCalls = 0
    /\ fadeFails = 0
    /\ lastSet = [s \in ChannelSlots |-> None]
    /\ lastCommit = [s \in ChannelSlots |-> "none"]
    /\ commitFailed = [s \in ChannelSlots |-> FALSE]
    /\ lastOp = NoOp
    /\ lastCalls = <<>>

\* ------------------------------------------------------ Peripheral::new
\* unsafe fn new(): "It is safe to instantiate the LEDC peripheral exactly
\* one time"; the guard is that caller contract.  No hardware write.
PeripheralNew ==
    /\ ~registryCreated
    /\ registryCreated' = TRUE
    /\ callerTimers' = TimerTokens
    /\ callerChannels' = ChannelTokens
    /\ lastOp' = Op("Peripheral::new", None, None, None, "Ok", None)
    /\ lastCalls' = <<>>
    /\ UNCHANGED <<callerPins, timers, channels, fadeState, control, hwTimer,
                   hwChannel, ghost>>

\* ----------------------------------------------------------- Timer::new
\* The token is moved into the call; on Err it is dropped with the call.
TimerNewCopiesToken(th, instance, speed_mode, frequency, res) ==
    /\ pc[th] = "idle"
    /\ instance \in callerTimers
    /\ FreeTimerSlots # {}
    /\ LET s == Min(FreeTimerSlots)
           timer_config == [speed_mode |-> speed_mode,
                            timer_num |-> instance,
                            duty_resolution |-> "LEDC_TIMER_8_BIT",
                            freq_hz |-> frequency,
                            clk_cfg |-> "LEDC_AUTO_CLK"]
       IN /\ callerTimers' = callerTimers
          /\ lastCalls' = <<Call("ledc_timer_config", timer_config, res)>>
          /\ IF esp(res) = "Ok"
             THEN /\ hwTimer' = [hwTimer EXCEPT ![instance] =
                        [configured |-> TRUE, speed_mode |-> speed_mode,
                         freq_hz |-> frequency]]
                  /\ timers' = [timers EXCEPT ![s] =
                        [live |-> TRUE, instance |-> instance,
                         speed_mode |-> speed_mode]]
                  /\ lastOp' = Op("Timer::new", s, instance, None, "Ok", None)
             ELSE /\ UNCHANGED <<hwTimer, timers>>
                  /\ lastOp' = Op("Timer::new", None, instance, None, "Err", None)
    /\ UNCHANGED <<registryCreated, callerChannels, callerPins, channels,
                   fadeState, control, hwChannel, ghost>>

TimerNewReturnsTokenOnErr(th, instance, speed_mode, frequency, res) ==
    /\ pc[th] = "idle"
    /\ instance \in callerTimers
    /\ FreeTimerSlots # {}
    /\ LET s == Min(FreeTimerSlots)
           timer_config == [speed_mode |-> speed_mode,
                            timer_num |-> instance,
                            duty_resolution |-> "LEDC_TIMER_8_BIT",
                            freq_hz |-> frequency,
                            clk_cfg |-> "LEDC_AUTO_CLK"]
       IN /\ lastCalls' = <<Call("ledc_timer_config", timer_config, res)>>
          /\ IF esp(res) = "Ok"
             THEN /\ callerTimers' = callerTimers \ {instance}
                  /\ hwTimer' = [hwTimer EXCEPT ![instance] =
                        [configured |-> TRUE, speed_mode |-> speed_mode,
                         freq_hz |-> frequency]]
                  /\ timers' = [timers EXCEPT ![s] =
                        [live |-> TRUE, instance |-> instance,
                         speed_mode |-> speed_mode]]
                  /\ lastOp' = Op("Timer::new", s, instance, None, "Ok", None)
             ELSE /\ UNCHANGED <<callerTimers, hwTimer, timers>>
                  /\ lastOp' = Op("Timer::new", None, instance, None, "Err", None)
    /\ UNCHANGED <<registryCreated, callerChannels, callerPins, channels,
                   fadeState, control, hwChannel, ghost>>

TimerNew(th, instance, speed_mode, frequency, res) ==
    /\ pc[th] = "idle"
    /\ instance \in callerTimers
    /\ FreeTimerSlots # {}
    /\ LET s == Min(FreeTimerSlots)
           timer_config == [speed_mode |-> speed_mode,
                            timer_num |-> instance,
                            duty_resolution |-> "LEDC_TIMER_8_BIT",
                            freq_hz |-> frequency,
                            clk_cfg |-> "LEDC_AUTO_CLK"]
       IN /\ callerTimers' = callerTimers \ {instance}
          /\ lastCalls' = <<Call("ledc_timer_config", timer_config, res)>>
          /\ IF esp(res) = "Ok"
             THEN /\ hwTimer' = [hwTimer EXCEPT ![instance] =
                        [configured |-> TRUE, speed_mode |-> speed_mode,
                         freq_hz |-> frequency]]
                  /\ timers' = [timers EXCEPT ![s] =
                        [live |-> TRUE, instance |-> instance,
                         speed_mode |-> speed_mode]]
                  /\ lastOp' = Op("Timer::new", s, instance, None, "Ok", None)
             ELSE /\ UNCHANGED <<hwTimer, timers>>
                  /\ lastOp' = Op("Timer::new", None, instance, None, "Err", None)
    /\ UNCHANGED <<registryCreated, callerChannels, callerPins, channels,
                   fadeState, control, hwChannel, ghost>>

\* ------------------------------------------------------- Timer::release
\* release(self) moves the Timer: the borrow checker rejects it while any
\* &'a Timer borrow (a live Channel, a running Channel::new) exists.
TimerReleaseLosesToken(th, s) ==
    /\ pc[th] = "idle"
    /\ timers[s].live
    /\ ~Borrowed(s)
    /\ timers' = [timers EXCEPT ![s] = NoTimer]
    /\ lastOp' = Op("Timer::release", s, timers[s].instance, None, "Ok",
                    timers[s].instance)
    /\ lastCalls' = <<>>
    /\ UNCHANGED <<ownership, channels, fadeState, control, hwTimer,
                   hwChannel, ghost>>

TimerReleaseWrongGuard(th, s) ==
    /\ pc[th] = "idle"
    /\ timers[s].live
    /\ timers' = [timers EXCEPT ![s] = NoTimer]
    /\ callerTimers' = callerTimers \cup {timers[s].instance}
    /\ lastOp' = Op("Timer::release", s, timers[s].instance, None, "Ok",
                    timers[s].instance)
    /\ lastCalls' = <<>>
    /\ UNCHANGED <<registryCreated, callerChannels, callerPins, channels,
                   fadeState, control, hwTimer, hwChannel, ghost>>

TimerRelease(th, s) ==
    /\ pc[th] = "idle"
    /\ timers[s].live
    /\ ~Borrowed(s)
    /\ timers' = [timers EXCEPT ![s] = NoTimer]
    /\ callerTimers' = callerTimers \cup {timers[s].instance}
    /\ lastOp' = Op("Timer::release", s, timers[s].instance, None, "Ok",
                    timers[s].instance)
    /\ lastCalls' = <<>>
    /\ UNCHANGED <<registryCreated, callerChannels, callerPins, channels,
                   fadeState, control, hwTimer, hwChannel, ghost>>

\* A Timer that goes out of scope: no Drop impl, the token is dropped too.
TimerDrop(th, s) ==
    /\ pc[th] = "idle"
    /\ timers[s].live
    /\ ~Borrowed(s)
    /\ timers' = [timers EXCEPT ![s] = NoTimer]
    /\ lastOp' = Op("drop Timer", s, timers[s].instance, None, "Ok", None)
    /\ lastCalls' = <<>>
    /\ UNCHANGED <<ownership, channels, fadeState, control, hwTimer,
                   hwChannel, ghost>>

\* --------------------------------------------------------- Channel::new
\* Reading through a &Timer whose Timer is gone is undefined behaviour: any
\* speed mode may be read.  With the borrow rules in force the Timer is live.
ReadSpeedMode(ts) ==
    IF timers[ts].live THEN {timers[ts].speed_mode} ELSE SpeedModes

ChannelNewBeginDefaultMode(th, instance, ts, pin) ==
    /\ pc[th] = "idle"
    /\ instance \in callerChannels
    /\ pin \in callerPins
    /\ timers[ts].live
    /\ LET duty == 0
           channel_config == [speed_mode |-> "LEDC_LOW_SPEED_MODE",
                              channel |-> instance,
                              timer_sel |-> timers[ts].instance,
                              intr_type |-> "LEDC_INTR_DISABLE",
                              gpio_num |-> pin,
                              duty |-> AsU32(duty),
                              hpoint |-> HPOINT]
       IN frame' = [frame EXCEPT ![th] =
               [active |-> TRUE, instance |-> instance, timer |-> ts,
                pin |-> pin, duty |-> duty, channel_config |-> channel_config,
                 activated |-> FALSE]]
    /\ callerChannels' = callerChannels \ {instance}
    /\ callerPins' = callerPins \ {pin}
    /\ pc' = [pc EXCEPT ![th] = "lock"]
    /\ lastOp' = Op("Channel::new", None, instance, None, "begin", None)
    /\ lastCalls' = <<>>
    /\ UNCHANGED <<registryCreated, callerTimers, timers, channels, fadeState,
                   hwTimer, hwChannel, ghost>>

\* Lines 117-129: the token and the pin are moved into the call, the Timer is
\* borrowed, channel_config is built from timer.speed_mode.
ChannelNewBegin(th, instance, ts, pin) ==
    /\ pc[th] = "idle"
    /\ instance \in callerChannels
    /\ pin \in callerPins
    /\ timers[ts].live
    /\ \E mode \in ReadSpeedMode(ts) :
        LET duty == 0
            channel_config == [speed_mode |-> mode,
                               channel |-> instance,
                               timer_sel |-> timers[ts].instance,
                               intr_type |-> "LEDC_INTR_DISABLE",
                               gpio_num |-> pin,
                               duty |-> AsU32(duty),
                               hpoint |-> HPOINT]
        IN frame' = [frame EXCEPT ![th] =
                [active |-> TRUE, instance |-> instance, timer |-> ts,
                 pin |-> pin, duty |-> duty, channel_config |-> channel_config,
                 activated |-> FALSE]]
    /\ callerChannels' = callerChannels \ {instance}
    /\ callerPins' = callerPins \ {pin}
    /\ pc' = [pc EXCEPT ![th] = "lock"]
    /\ lastOp' = Op("Channel::new", None, instance, None, "begin", None)
    /\ lastCalls' = <<>>
    /\ UNCHANGED <<registryCreated, callerTimers, timers, channels, fadeState,
                   hwTimer, hwChannel, ghost>>

\* Line 131: FADE_FUNC_INSTALLED.lock() blocks until the mutex is free.  No
\* code panics while holding it, so the mutex is never poisoned and unwrap()
\* never panics.
ChannelNewLockNoMutex(th) ==
    /\ pc[th] = "lock"
    /\ lockHolder' = th
    /\ pc' = [pc EXCEPT ![th] = "check"]
    /\ lastOp' = Op("Channel::new", None, frame[th].instance, None, "locked", None)
    /\ lastCalls' = <<>>
    /\ UNCHANGED <<ownership, timers, channels, installed, fadeCalls,
                   fadeFails, frame, hwTimer, hwChannel, ghost>>

ChannelNewLock(th) ==
    /\ pc[th] = "lock"
    /\ lockHolder = None
    /\ lockHolder' = th
    /\ pc' = [pc EXCEPT ![th] = "check"]
    /\ lastOp' = Op("Channel::new", None, frame[th].instance, None, "locked", None)
    /\ lastCalls' = <<>>
    /\ UNCHANGED <<ownership, timers, channels, installed, fadeCalls,
                   fadeFails, frame, hwTimer, hwChannel, ghost>>

ChannelNewCheckIgnoresFlag(th) ==
    /\ pc[th] = "check"
    /\ pc' = [pc EXCEPT ![th] = "install"]
    /\ lastOp' = Op("Channel::new", None, frame[th].instance, None, "checked", None)
    /\ lastCalls' = <<>>
    /\ UNCHANGED <<ownership, timers, channels, fadeState, frame,
                   hwTimer, hwChannel, ghost>>

\* Line 132: if !*installed
ChannelNewCheckSkipsInstall(th) ==
    /\ pc[th] = "check"
    /\ pc' = [pc EXCEPT ![th] = "unlock"]
    /\ lastOp' = Op("Channel::new", None, frame[th].instance, None, "checked", None)
    /\ lastCalls' = <<>>
    /\ UNCHANGED <<ownership, timers, channels, fadeState, frame,
                   hwTimer, hwChannel, ghost>>

ChannelNewCheck(th) ==
    /\ pc[th] = "check"
    /\ pc' = [pc EXCEPT ![th] = IF installed THEN "unlock" ELSE "install"]
    /\ lastOp' = Op("Channel::new", None, frame[th].instance, None, "checked", None)
    /\ lastCalls' = <<>>
    /\ UNCHANGED <<ownership, timers, channels, fadeState, frame,
                   hwTimer, hwChannel, ghost>>

FadeInstallFlagSetFirst(th, res) ==
    IF esp(res) = "Ok"
    THEN [installed |-> TRUE, lockHolder |-> th, returns |-> FALSE]
    ELSE [installed |-> TRUE, lockHolder |-> None, returns |-> TRUE]

FadeInstallKeepsLockOnErr(th, res) ==
    IF esp(res) = "Ok"
    THEN [installed |-> TRUE, lockHolder |-> th, returns |-> FALSE]
    ELSE [installed |-> installed, lockHolder |-> th, returns |-> TRUE]

\* What the `?` of line 135 does with the flag and the guard when
\* ledc_fade_func_install fails: the flag is not written, the MutexGuard is
\* dropped by the early return.
FadeInstallOutcome(th, res) ==
    IF esp(res) = "Ok"
    THEN [installed |-> TRUE, lockHolder |-> th, returns |-> FALSE]
    ELSE [installed |-> installed, lockHolder |-> None, returns |-> TRUE]

\* Lines 135-136: esp!(ledc_fade_func_install(0))?; *installed = true;
ChannelNewInstall(th, res) ==
    /\ pc[th] = "install"
    /\ LET out == FadeInstallOutcome(th, res)
       IN /\ installed' = out.installed
          /\ lockHolder' = out.lockHolder
          /\ fadeCalls' = fadeCalls + 1
          /\ fadeFails' = IF esp(res) = "Ok" THEN fadeFails ELSE fadeFails + 1
          /\ lastCalls' = <<Call("ledc_fade_func_install", <<0>>, res)>>
          /\ IF out.returns
             THEN /\ pc' = [pc EXCEPT ![th] = "idle"]
                  /\ frame' = [frame EXCEPT ![th] = NoFrame]
                  /\ lastOp' = Op("Channel::new", None, frame[th].instance, None, "Err", None)
             ELSE /\ pc' = [pc EXCEPT ![th] = "unlock"]
                  /\ frame' = [frame EXCEPT ![th].activated = TRUE]
                  /\ lastOp' = Op("Channel::new", None, frame[th].instance, None, "installed", None)
    /\ UNCHANGED <<ownership, timers, channels, hwTimer, hwChannel, ghost>>

ChannelNewUnlockKeepsLock(th) ==
    /\ pc[th] = "unlock"
    /\ lockHolder' = lockHolder
    /\ pc' = [pc EXCEPT ![th] = "config"]
    /\ lastOp' = Op("Channel::new", None, frame[th].instance, None, "unlocked", None)
    /\ lastCalls' = <<>>
    /\ UNCHANGED <<ownership, timers, channels, installed, fadeCalls,
                   fadeFails, frame, hwTimer, hwChannel, ghost>>

\* Line 138: drop(installed)
ChannelNewUnlock(th) ==
    /\ pc[th] = "unlock"
    /\ lockHolder' = None
    /\ pc' = [pc EXCEPT ![th] = "config"]
    /\ lastOp' = Op("Channel::new", None, frame[th].instance, None, "unlocked", None)
    /\ lastCalls' = <<>>
    /\ UNCHANGED <<ownership, timers, channels, installed, fadeCalls,
                   fadeFails, frame, hwTimer, hwChannel, ghost>>

ChannelNewConfigKeepsChannel(th, res) ==
    /\ pc[th] = "config"
    /\ FreeChannelSlots # {}
    /\ LET f == frame[th]
           s == Min(FreeChannelSlots)
       IN /\ lastCalls' = <<Call("ledc_channel_config", f.channel_config, res)>>
          /\ hwChannel' = IF esp(res) = "Ok"
                THEN [hwChannel EXCEPT ![f.channel_config.channel] =
                        [configured |-> TRUE,
                         speed_mode |-> f.channel_config.speed_mode,
                         timer_sel |-> f.channel_config.timer_sel,
                         gpio_num |-> f.channel_config.gpio_num,
                         duty |-> f.channel_config.duty,
                         hpoint |-> f.channel_config.hpoint]]
                ELSE hwChannel
          /\ channels' = [channels EXCEPT ![s] =
                [live |-> TRUE, instance |-> f.instance,
                 timer |-> f.timer, pin |-> f.pin, duty |-> f.duty]]
          /\ lastSet' = [lastSet EXCEPT ![s] = f.duty]
          /\ lastCommit' = [lastCommit EXCEPT ![s] = "new"]
          /\ commitFailed' = [commitFailed EXCEPT ![s] = FALSE]
          /\ lastOp' = Op("Channel::new", IF esp(res) = "Ok" THEN s ELSE None,
                          f.instance, None, esp(res), None)
    /\ pc' = [pc EXCEPT ![th] = "idle"]
    /\ frame' = [frame EXCEPT ![th] = NoFrame]
    /\ UNCHANGED <<ownership, timers, fadeState, hwTimer>>

\* Lines 142-149: esp!(ledc_channel_config(&channel_config))?; Ok(Channel{..})
ChannelNewConfig(th, res) ==
    /\ pc[th] = "config"
    /\ FreeChannelSlots # {}
    /\ LET f == frame[th]
           s == Min(FreeChannelSlots)
       IN /\ lastCalls' = <<Call("ledc_channel_config", f.channel_config, res)>>
          /\ IF esp(res) = "Ok"
             THEN /\ hwChannel' = [hwChannel EXCEPT ![f.channel_config.channel] =
                        [configured |-> TRUE,
                         speed_mode |-> f.channel_config.speed_mode,
                         timer_sel |-> f.channel_config.timer_sel,
                         gpio_num |-> f.channel_config.gpio_num,
                         duty |-> f.channel_config.duty,
                         hpoint |-> f.channel_config.hpoint]]
                  /\ channels' = [channels EXCEPT ![s] =
                        [live |-> TRUE, instance |-> f.instance,
                         timer |-> f.timer, pin |-> f.pin, duty |-> f.duty]]
                  /\ lastSet' = [lastSet EXCEPT ![s] = f.duty]
                  /\ lastCommit' = [lastCommit EXCEPT ![s] = "new"]
                  /\ commitFailed' = [commitFailed EXCEPT ![s] = FALSE]
                  /\ lastOp' = Op("Channel::new", s, f.instance, None, "Ok", None)
             ELSE /\ UNCHANGED <<hwChannel, channels, ghost>>
                  /\ lastOp' = Op("Channel::new", None, f.instance, None, "Err", None)
    /\ pc' = [pc EXCEPT ![th] = "idle"]
    /\ frame' = [frame EXCEPT ![th] = NoFrame]
    /\ UNCHANGED <<ownership, timers, fadeState, hwTimer>>

ChannelReleaseStopsChannel(th, c) ==
    /\ pc[th] = "idle"
    /\ channels[c].live
    /\ channels' = [channels EXCEPT ![c] = NoChannel]
    /\ callerChannels' = callerChannels \cup {channels[c].instance}
    /\ callerPins' = callerPins \cup {channels[c].pin}
    /\ lastOp' = Op("Channel::release", c, channels[c].instance, None, "Ok", None)
    /\ \E mode \in ReadSpeedMode(channels[c].timer) :
          lastCalls' = <<Call("ledc_set_duty_and_update",
                              [speed_mode |-> mode,
                               channel |-> channels[c].instance,
                               duty |-> 0, hpoint |-> HPOINT], "ESP_OK")>>
    /\ hwChannel' = [hwChannel EXCEPT ![channels[c].instance] =
                        [@ EXCEPT !.duty = 0, !.hpoint = HPOINT]]
    /\ lastSet' = [lastSet EXCEPT ![c] = None]
    /\ lastCommit' = [lastCommit EXCEPT ![c] = "none"]
    /\ commitFailed' = [commitFailed EXCEPT ![c] = FALSE]
    /\ UNCHANGED <<registryCreated, callerTimers, timers, fadeState, control,
                   hwTimer>>

\* ----------------------------------------------------- Channel::release
ChannelRelease(th, c) ==
    /\ pc[th] = "idle"
    /\ channels[c].live
    /\ channels' = [channels EXCEPT ![c] = NoChannel]
    /\ callerChannels' = callerChannels \cup {channels[c].instance}
    /\ callerPins' = callerPins \cup {channels[c].pin}
    /\ lastOp' = Op("Channel::release", c, channels[c].instance, None, "Ok", None)
    /\ lastCalls' = <<>>
    /\ lastSet' = [lastSet EXCEPT ![c] = None]
    /\ lastCommit' = [lastCommit EXCEPT ![c] = "none"]
    /\ commitFailed' = [commitFailed EXCEPT ![c] = FALSE]
    /\ UNCHANGED <<registryCreated, callerTimers, timers, fadeState, control,
                   hwTimer, hwChannel>>

ChannelDropUninstallsFade(th, c) ==
    /\ pc[th] = "idle"
    /\ channels[c].live
    /\ channels' = [channels EXCEPT ![c] = NoChannel]
    /\ lastOp' = Op("drop Channel", c, channels[c].instance, None, "Ok", None)
    /\ lastCalls' = <<>>
    /\ lastSet' = [lastSet EXCEPT ![c] = None]
    /\ lastCommit' = [lastCommit EXCEPT ![c] = "none"]
    /\ commitFailed' = [commitFailed EXCEPT ![c] = FALSE]
    /\ installed' = FALSE
    /\ UNCHANGED <<ownership, timers, lockHolder, fadeCalls, fadeFails,
                   control, hwTimer, hwChannel>>

\* A Channel that goes out of scope ("FIXME: Stop channel upon dropping"):
\* token and pin are dropped with it, the hardware is not touched.
ChannelDrop(th, c) ==
    /\ pc[th] = "idle"
    /\ channels[c].live
    /\ channels' = [channels EXCEPT ![c] = NoChannel]
    /\ lastOp' = Op("drop Channel", c, channels[c].instance, None, "Ok", None)
    /\ lastCalls' = <<>>
    /\ lastSet' = [lastSet EXCEPT ![c] = None]
    /\ lastCommit' = [lastCommit EXCEPT ![c] = "none"]
    /\ commitFailed' = [commitFailed EXCEPT ![c] = FALSE]
    /\ UNCHANGED <<ownership, timers, fadeState, control, hwTimer, hwChannel>>

update_dutyRetries(c, by, mode, duty, res) ==
    /\ lastCalls' =
          LET call(r) == Call("ledc_set_duty_and_update",
                              [speed_mode |-> mode,
                               channel |-> channels[c].instance,
                               duty |-> AsU32(duty),
                               hpoint |-> HPOINT], r)
          IN IF res = "ESP_OK" THEN <<call(res)>>
                               ELSE <<call(res), call("ESP_OK")>>
    /\ hwChannel' = [hwChannel EXCEPT ![channels[c].instance] =
                        [@ EXCEPT !.duty = AsU32(duty), !.hpoint = HPOINT]]
    /\ lastCommit' = [lastCommit EXCEPT ![c] = by]
    /\ commitFailed' = commitFailed

update_dutySwappedArgs(c, by, mode, duty, res) ==
    /\ lastCalls' = <<Call("ledc_set_duty_and_update",
                           [speed_mode |-> mode,
                            channel |-> channels[c].instance,
                            duty |-> HPOINT,
                            hpoint |-> AsU32(duty)], res)>>
    /\ hwChannel' = IF res = "ESP_OK"
                    THEN [hwChannel EXCEPT ![channels[c].instance] =
                            [@ EXCEPT !.duty = HPOINT, !.hpoint = AsU32(duty)]]
                    ELSE hwChannel
    /\ lastCommit' = IF res = "ESP_OK"
                     THEN [lastCommit EXCEPT ![c] = by]
                     ELSE lastCommit
    /\ commitFailed' = IF res = "ESP_OK"
                       THEN commitFailed
                       ELSE [commitFailed EXCEPT ![c] = TRUE]

\* ------------------------------------------------ Channel::update_duty
\* Line 158: one ledc_set_duty_and_update call; the hardware takes the duty
\* only when the driver returns ESP_OK.
update_duty(c, by, mode, duty, res) ==
    /\ lastCalls' = <<Call("ledc_set_duty_and_update",
                           [speed_mode |-> mode,
                            channel |-> channels[c].instance,
                            duty |-> AsU32(duty),
                            hpoint |-> HPOINT], res)>>
    /\ hwChannel' = IF res = "ESP_OK"
                    THEN [hwChannel EXCEPT ![channels[c].instance] =
                            [@ EXCEPT !.duty = AsU32(duty), !.hpoint = HPOINT]]
                    ELSE hwChannel
    /\ lastCommit' = IF res = "ESP_OK"
                     THEN [lastCommit EXCEPT ![c] = by]
                     ELSE lastCommit
    /\ commitFailed' = IF res = "ESP_OK"
                       THEN commitFailed
                       ELSE [commitFailed EXCEPT ![c] = TRUE]

\* ---------------------------------------------- impl PwmPin for Channel
PwmDisableClearsCache(th, c, res) ==
    /\ pc[th] = "idle"
    /\ channels[c].live
    /\ channels' = [channels EXCEPT ![c].duty = 0]
    /\ \E mode \in ReadSpeedMode(channels[c].timer) :
          update_duty(c, "disable", mode, 0, res)
    /\ lastOp' = Op("disable", c, channels[c].instance, None, esp(res), None)
    /\ UNCHANGED <<ownership, timers, fadeState, control, hwTimer, lastSet>>

PwmDisable(th, c, res) ==
    /\ pc[th] = "idle"
    /\ channels[c].live
    /\ \E mode \in ReadSpeedMode(channels[c].timer) :
          update_duty(c, "disable", mode, 0, res)
    /\ lastOp' = Op("disable", c, channels[c].instance, None, esp(res), None)
    /\ UNCHANGED <<ownership, timers, channels, fadeState, control, hwTimer,
                   lastSet>>

PwmEnableMaxDuty(th, c, res) ==
    /\ pc[th] = "idle"
    /\ channels[c].live
    /\ \E mode \in ReadSpeedMode(channels[c].timer) :
          update_duty(c, "enable", mode, DutyMAX, res)
    /\ lastOp' = Op("enable", c, channels[c].instance, None, esp(res), None)
    /\ UNCHANGED <<ownership, timers, channels, fadeState, control, hwTimer,
                   lastSet>>

PwmEnable(th, c, res) ==
    /\ pc[th] = "idle"
    /\ channels[c].live
    /\ \E mode \in ReadSpeedMode(channels[c].timer) :
          update_duty(c, "enable", mode, channels[c].duty, res)
    /\ lastOp' = Op("enable", c, channels[c].instance, None, esp(res), None)
    /\ UNCHANGED <<ownership, timers, channels, fadeState, control, hwTimer,
                   lastSet>>

get_duty(c) == channels[c].duty

PwmGetDuty(th, c) ==
    /\ pc[th] = "idle"
    /\ channels[c].live
    /\ lastOp' = Op("get_duty", c, channels[c].instance, None, "Ok",
                    get_duty(c))
    /\ lastCalls' = <<>>
    /\ UNCHANGED <<ownership, timers, channels, fadeState, control, hwTimer,
                   hwChannel, ghost>>

get_max_duty(c) == DutyMAX

PwmGetMaxDuty(th, c) ==
    /\ pc[th] = "idle"
    /\ channels[c].live
    /\ lastOp' = Op("get_max_duty", c, channels[c].instance, None, "Ok",
                    get_max_duty(c))
    /\ lastCalls' = <<>>
    /\ UNCHANGED <<ownership, timers, channels, fadeState, control, hwTimer,
                   hwChannel, ghost>>

PwmSetDutyCacheOnSuccess(th, c, duty, res) ==
    /\ pc[th] = "idle"
    /\ channels[c].live
    /\ channels' = IF esp(res) = "Ok"
                   THEN [channels EXCEPT ![c].duty = duty]
                   ELSE channels
    /\ \E mode \in ReadSpeedMode(channels[c].timer) :
          update_duty(c, "set_duty", mode, duty, res)
    /\ lastSet' = [lastSet EXCEPT ![c] = duty]
    /\ lastOp' = Op("set_duty", c, channels[c].instance, duty, esp(res), None)
    /\ UNCHANGED <<ownership, timers, fadeState, control, hwTimer>>

\* Lines 185-189: the cache is written before the commit is attempted.
PwmSetDuty(th, c, duty, res) ==
    /\ pc[th] = "idle"
    /\ channels[c].live
    /\ channels' = [channels EXCEPT ![c].duty = duty]
    /\ \E mode \in ReadSpeedMode(channels[c].timer) :
          update_duty(c, "set_duty", mode, duty, res)
    /\ lastSet' = [lastSet EXCEPT ![c] = duty]
    /\ lastOp' = Op("set_duty", c, channels[c].instance, duty, esp(res), None)
    /\ UNCHANGED <<ownership, timers, fadeState, control, hwTimer>>

Next ==
    \/ PeripheralNew
    \/ \E th \in Threads, t \in TimerTokens, m \in SpeedModes,
          f \in Frequencies, r \in DriverResults : TimerNew(th, t, m, f, r)
    \/ \E th \in Threads, s \in TimerSlots : TimerRelease(th, s)
    \/ \E th \in Threads, s \in TimerSlots : TimerDrop(th, s)
    \/ \E th \in Threads, c \in ChannelTokens, s \in TimerSlots, p \in Pins :
          ChannelNewBegin(th, c, s, p)
    \/ \E th \in Threads : ChannelNewLock(th)
    \/ \E th \in Threads : ChannelNewCheck(th)
    \/ \E th \in Threads, r \in DriverResults : ChannelNewInstall(th, r)
    \/ \E th \in Threads : ChannelNewUnlock(th)
    \/ \E th \in Threads, r \in DriverResults : ChannelNewConfig(th, r)
    \/ \E th \in Threads, c \in ChannelSlots : ChannelRelease(th, c)
    \/ \E th \in Threads, c \in ChannelSlots : ChannelDrop(th, c)
    \/ \E th \in Threads, c \in ChannelSlots, r \in DriverResults :
          PwmDisable(th, c, r)
    \/ \E th \in Threads, c \in ChannelSlots, r \in DriverResults :
          PwmEnable(th, c, r)
    \/ \E th \in Threads, c \in ChannelSlots : PwmGetDuty(th, c)
    \/ \E th \in Threads, c \in ChannelSlots : PwmGetMaxDuty(th, c)
    \/ \E th \in Threads, c \in ChannelSlots, d \in DutyInputs,
          r \in DriverResults : PwmSetDuty(th, c, d, r)

Spec == Init /\ [][Next]_vars

\* The steps of a running Channel::new of thread th (lines 131-149).
ChannelNewStep(th) ==
    \/ ChannelNewLock(th)
    \/ ChannelNewCheck(th)
    \/ \E r \in DriverResults : ChannelNewInstall(th, r)
    \/ ChannelNewUnlock(th)
    \/ \E r \in DriverResults : ChannelNewConfig(th, r)

\* Every thread that can go on with its Channel::new eventually does: the
\* scheduler runs every runnable thread, and the driver calls return.  The
\* mutex of line 131 promises no order among the threads waiting for it, so
\* the fairness is weak.
LiveSpec == Spec /\ \A th \in Threads : WF_vars(ChannelNewStep(th))

\* ===================================================================
\* Properties
\* ===================================================================
AllIdle == \A th \in Threads : pc[th] = "idle"
ChannelNewReturned ==
    lastOp.op = "Channel::new" /\ lastOp.ret \in {"Ok", "Err"}
LiveChannels == {c \in ChannelSlots : channels[c].live}
LiveTimers == {s \in TimerSlots : timers[s].live}
DutyOps == {"set_duty", "enable", "disable"}
FadeSuccesses == fadeCalls - fadeFails

\* C1 (as stated): once every running Channel::new has returned, and at least
\* one has, ledc_fade_func_install has been invoked exactly once.
C1_ExactlyOneActivationCall ==
    (AllIdle /\ ChannelNewReturned) => fadeCalls = 1

\* C1 (amended): once every running Channel::new has returned, and at least
\* one has, ledc_fade_func_install has been invoked exactly once if none of
\* its invocations failed; in general it has been invoked once per failed
\* attempt plus at most once more, and at least once.
C1_OneActivationCallUnlessFailed ==
    (AllIdle /\ ChannelNewReturned) =>
        /\ fadeFails = 0 => fadeCalls = 1
        /\ fadeCalls >= 1
        /\ fadeCalls \in {fadeFails, fadeFails + 1}

\* C1 witness: two Channel::new calls have both produced a Channel and the
\* activation call was made once.
C1_Witness ==
    /\ AllIdle /\ ChannelNewReturned /\ lastOp.ret = "Ok"
    /\ Cardinality(LiveChannels) = NumChannels
    /\ fadeFails = 0 /\ fadeCalls = 1

\* C2 (as stated): ledc_fade_func_install has executed at most once, whatever
\* the driver calls returned.
C2_AtMostOneActivationCall == fadeCalls <= 1

\* C2 (amended): ledc_fade_func_install has returned ESP_OK at most once, the
\* flag is true exactly when it has, and no thread is about to invoke it while
\* the flag is true; invocations that failed may be followed by further ones.
C2_AtMostOneSuccessfulActivation ==
    /\ FadeSuccesses \in {0, 1}
    /\ installed <=> FadeSuccesses = 1
    /\ \A th \in Threads : pc[th] = "install" => ~installed

\* C2 witness: the activation call failed, was invoked again and succeeded.
C2_Witness == installed /\ fadeFails >= 1 /\ fadeCalls = fadeFails + 1

\* C3: a Channel::new whose activation call fails returns Err, produces no
\* Channel and leaves the flag false; while the flag is false no Channel::new
\* gets past the activation step, so the next one invokes the activation call
\* again; when that call succeeds the flag is true and the call goes on to
\* configure and construct its Channel.
C3_FailedActivationIsRetried ==
    /\ (/\ lastOp.op = "Channel::new"
        /\ lastCalls # <<>>
        /\ lastCalls[1].fn = "ledc_fade_func_install"
        /\ lastCalls[1].res # "ESP_OK")
       => /\ lastOp.ret = "Err"
          /\ ~installed
          /\ \A c \in LiveChannels : channels[c].instance # lastOp.token
          /\ \A th \in Threads :
                frame[th].active => frame[th].instance # lastOp.token
    /\ (/\ lastOp.op = "Channel::new"
        /\ lastCalls # <<>>
        /\ lastCalls[1].fn = "ledc_fade_func_install"
        /\ lastCalls[1].res = "ESP_OK")
       => /\ installed
          /\ \E th \in Threads :
                pc[th] = "unlock" /\ frame[th].instance = lastOp.token
    /\ ~installed =>
          /\ \A th \in Threads : pc[th] \notin {"unlock", "config"}
          /\ LiveChannels = {}
          /\ fadeCalls = fadeFails
    /\ (lastOp.op = "Channel::new" /\ lastOp.ret = "Ok")
       => installed /\ channels[lastOp.slot].live

\* C3 witness: after a failed activation a later Channel::new has activated
\* the fade subsystem and constructed its Channel.
C3_Witness ==
    /\ fadeFails >= 1 /\ installed
    /\ lastOp.op = "Channel::new" /\ lastOp.ret = "Ok"
    /\ fadeCalls = fadeFails + 1

TimerHolders(t) ==
    (IF t \in callerTimers THEN 1 ELSE 0)
    + Cardinality({s \in TimerSlots : timers[s].live /\ timers[s].instance = t})
ChannelHolders(c) ==
    (IF c \in callerChannels THEN 1 ELSE 0)
    + Cardinality({s \in ChannelSlots :
                      channels[s].live /\ channels[s].instance = c})
    + Cardinality({th \in Threads :
                      frame[th].active /\ frame[th].instance = c})

\* C4: every timer token and every channel token has at most one holder (the
\* caller, one Timer, one Channel or one running Channel::new); a token held
\* by a live Timer or Channel is not available to another constructor call
\* until release has handed it back.
C4_TokensHaveOneHolder ==
    /\ \A t \in TimerTokens : TimerHolders(t) <= 1
    /\ \A c \in ChannelTokens : ChannelHolders(c) <= 1
    /\ \A s \in LiveTimers : timers[s].instance \notin callerTimers
    /\ \A c \in LiveChannels : channels[c].instance \notin callerChannels
    /\ (lastOp.op = "Timer::release") => lastOp.token \in callerTimers
    /\ (lastOp.op = "Channel::release") => lastOp.token \in callerChannels
    /\ ~registryCreated =>
          \A t \in TimerTokens, c \in ChannelTokens :
              TimerHolders(t) = 0 /\ ChannelHolders(c) = 0

\* C4 witness: a Timer and as many Channels as there are channel tokens are
\* live, each holding its own token.
C4_Witness ==
    /\ LiveTimers # {}
    /\ Cardinality({channels[c].instance : c \in LiveChannels}) = NumChannels

\* C5: right after set_duty(d), whatever the commit returned, get_duty
\* returns d; get_duty returns the duty last set and calls no driver function.
C5_SetDutyGetDutyRoundTrip ==
    /\ lastOp.op = "set_duty" => get_duty(lastOp.slot) = lastOp.arg
    /\ lastOp.op = "get_duty" =>
          /\ lastOp.val = lastSet[lastOp.slot]
          /\ lastCalls = <<>>

\* C5 witness: get_duty has returned the non-zero duty given to a set_duty
\* whose commit failed.
C5_Witness ==
    /\ lastOp.op = "get_duty" /\ lastOp.val = DutyMAX
    /\ lastCommit[lastOp.slot] # "set_duty"

\* C6: disable asks the driver for duty 0 and leaves the cached duty at the
\* duty last set; enable asks the driver for the duty last set; get_duty is
\* the duty last set in every state of a live Channel.
C6_DisableEnableRestoresDuty ==
    /\ \A c \in LiveChannels : get_duty(c) = lastSet[c]
    /\ lastOp.op = "disable" =>
          /\ lastCalls[1].args.duty = 0
          /\ lastOp.ret = "Ok" => hwChannel[lastOp.token].duty = 0
    /\ lastOp.op = "enable" =>
          /\ lastCalls[1].args.duty = lastSet[lastOp.slot]
          /\ lastOp.ret = "Ok" =>
                hwChannel[lastOp.token].duty = lastSet[lastOp.slot]

\* C6 witness: enable has put a non-zero duty back on the hardware.
C6_Witness ==
    /\ lastOp.op = "enable" /\ lastOp.ret = "Ok"
    /\ lastSet[lastOp.slot] = DutyMAX
    /\ hwChannel[lastOp.token].duty = DutyMAX

\* C7: set_duty, enable and disable each issue exactly one
\* ledc_set_duty_and_update call, with the speed_mode of the Channel's Timer,
\* the Channel's channel number, hpoint 0 and the duty given / cached / 0.
C7_OneCommitPerDutyOperation ==
    lastOp.op \in DutyOps =>
        /\ Len(lastCalls) = 1
        /\ lastCalls[1].fn = "ledc_set_duty_and_update"
        /\ lastCalls[1].args.channel = channels[lastOp.slot].instance
        /\ timers[channels[lastOp.slot].timer].live
        /\ lastCalls[1].args.speed_mode =
              timers[channels[lastOp.slot].timer].speed_mode
        /\ lastCalls[1].args.speed_mode =
              hwTimer[timers[channels[lastOp.slot].timer].instance].speed_mode
        /\ lastCalls[1].args.hpoint = 0
        /\ lastCalls[1].args.duty =
              CASE lastOp.op = "set_duty" -> lastOp.arg
                [] lastOp.op = "enable" -> channels[lastOp.slot].duty
                [] lastOp.op = "disable" -> 0
        /\ esp(lastCalls[1].res) = lastOp.ret

\* C7 witness: a set_duty with a non-zero duty on a Channel of a high-speed
\* Timer has issued its commit.
C7_Witness ==
    /\ lastOp.op = "set_duty" /\ lastOp.arg = DutyMAX
    /\ lastCalls[1].args.speed_mode = "LEDC_HIGH_SPEED_MODE"

\* C8: Timer::new returns Ok exactly when ledc_timer_config accepts the
\* configuration, and the Timer then owns the token; Timer::release returns
\* Ok with that token, after which the caller holds it and Timer::new can be
\* called with it again.
C8_TimerNewReleaseRoundTrip ==
    /\ lastOp.op = "Timer::new" =>
          /\ Len(lastCalls) = 1
          /\ lastCalls[1].fn = "ledc_timer_config"
          /\ lastCalls[1].args.timer_num = lastOp.token
          /\ lastOp.ret = "Ok" <=> lastCalls[1].res = "ESP_OK"
          /\ lastOp.ret = "Ok" =>
                /\ timers[lastOp.slot].live
                /\ timers[lastOp.slot].instance = lastOp.token
                /\ timers[lastOp.slot].speed_mode = lastCalls[1].args.speed_mode
    /\ lastOp.op = "Timer::release" =>
          /\ lastOp.ret = "Ok"
          /\ lastOp.val = lastOp.token
          /\ lastOp.token \in callerTimers
          /\ ~timers[lastOp.slot].live
          /\ \A m \in SpeedModes, f \in Frequencies :
                ENABLED (\E th \in Threads :
                            TimerNew(th, lastOp.token, m, f, "ESP_OK"))

\* C8 witness: a Timer has been released and its token is back with the
\* caller.
C8_Witness ==
    /\ lastOp.op = "Timer::release"
    /\ lastOp.token \in callerTimers
    /\ hwTimer[lastOp.token].configured

\* C9: a successful Channel::new has issued exactly one ledc_channel_config
\* call, with the Timer's speed_mode and timer number, the token's channel
\* number, the pin's number, duty 0 and hpoint 0, and its Channel's get_duty
\* is 0; every later commit of a Channel uses the speed_mode the channel was
\* configured with, which is its Timer's.
C9_ChannelNewConfiguresChannel ==
    /\ (lastOp.op = "Channel::new" /\ lastOp.ret = "Ok") =>
          LET ch == channels[lastOp.slot]
              cfg == lastCalls[1].args
          IN /\ Len(lastCalls) = 1
             /\ lastCalls[1].fn = "ledc_channel_config"
             /\ ch.live
             /\ ch.instance = lastOp.token
             /\ timers[ch.timer].live
             /\ cfg.speed_mode = timers[ch.timer].speed_mode
             /\ cfg.channel = ch.instance
             /\ cfg.timer_sel = timers[ch.timer].instance
             /\ cfg.gpio_num = ch.pin
             /\ cfg.duty = 0
             /\ cfg.hpoint = 0
             /\ get_duty(lastOp.slot) = 0
    /\ \A c \in LiveChannels :
          /\ hwChannel[channels[c].instance].configured
          /\ hwChannel[channels[c].instance].speed_mode =
                timers[channels[c].timer].speed_mode
          /\ hwChannel[channels[c].instance].timer_sel =
                timers[channels[c].timer].instance
          /\ hwChannel[channels[c].instance].gpio_num = channels[c].pin
    /\ lastOp.op \in DutyOps =>
          lastCalls[1].args.speed_mode =
              hwChannel[lastOp.token].speed_mode

\* C9 witness: a Channel has just been constructed against a high-speed
\* Timer.
C9_Witness ==
    /\ lastOp.op = "Channel::new" /\ lastOp.ret = "Ok"
    /\ lastCalls[1].args.speed_mode = "LEDC_HIGH_SPEED_MODE"

\* C10: every live Channel and every running Channel::new refers to a live
\* Timer; a Timer that was just released or dropped is referred to by none.
C10_ChannelTimerIsLive ==
    /\ \A c \in LiveChannels : timers[channels[c].timer].live
    /\ \A th \in Threads : frame[th].active => timers[frame[th].timer].live
    /\ lastOp.op \in {"Timer::release", "drop Timer"} =>
          /\ Borrowers(lastOp.slot) = {}
          /\ InFlightBorrowers(lastOp.slot) = {}

\* C10 witness: two live Channels borrow the same live Timer.
C10_Witness ==
    \E c1, c2 \in LiveChannels :
        /\ c1 # c2
        /\ channels[c1].timer = channels[c2].timer
        /\ timers[channels[c1].timer].live

\* The step of thread th in which its Channel::new returns from line 142 with
\* the error of ledc_channel_config.
ConfigFails(th) ==
    /\ pc[th] = "config" /\ pc'[th] = "idle"
    /\ lastCalls'[1].res # "ESP_OK"

\* C11 (as stated): a Channel::new whose ledc_channel_config call fails
\* returns the error, produces no Channel and retains no state of the failed
\* call: in particular the call has not changed the fade-init flag.
C11_FailedConfigRetainsNothing ==
    [][\A th \in Threads : ConfigFails(th) =>
          /\ lastOp'.op = "Channel::new" /\ lastOp'.ret = "Err"
          /\ channels' = channels
          /\ ~frame[th].activated]_vars

\* C11 (amended): a Channel::new whose ledc_channel_config call fails returns
\* the error after that one call, produces no Channel and keeps nothing of the
\* Channel (no Channel value, no borrow of the Timer, no hardware or cache
\* change, the token held by nobody); the fade-init flag is left as the
\* activation step of the same call set it.
C11_FailedConfigProducesNoChannel ==
    [][\A th \in Threads : ConfigFails(th) =>
          /\ lastOp'.op = "Channel::new" /\ lastOp'.ret = "Err"
          /\ Len(lastCalls') = 1
          /\ lastCalls'[1].fn = "ledc_channel_config"
          /\ channels' = channels
          /\ timers' = timers
          /\ hwChannel' = hwChannel /\ hwTimer' = hwTimer
          /\ lastSet' = lastSet /\ lastCommit' = lastCommit
          /\ frame'[th] = NoFrame
          /\ \A ts \in TimerSlots : th \notin InFlightBorrowers(ts)'
          /\ \A tok \in ChannelTokens :
                tok = frame[th].instance => ChannelHolders(tok)' = 0
          /\ installed' = installed /\ installed
          /\ lockHolder' = lockHolder /\ lockHolder # th]_vars

\* C11 witness: a Channel::new that installed the fade function has returned
\* the error of ledc_channel_config and there is no Channel.
C11_Witness ==
    /\ lastOp.op = "Channel::new" /\ lastOp.ret = "Err"
    /\ lastCalls[1].fn = "ledc_channel_config"
    /\ installed /\ fadeCalls = 1 /\ fadeFails = 0
    /\ LiveChannels = {}
    /\ AllIdle

\* C12: a Timer::release or Channel::release step issues no driver call and
\* changes nothing of the hardware: the timer unit keeps its configuration,
\* the channel unit keeps its configuration and the duty committed last; the
\* step only ends the Timer / Channel and hands the token (and the pin) back.
C12_ReleaseLeavesHardwareAlone ==
    [][/\ \A s \in TimerSlots :
            (lastOp'.op = "Timer::release" /\ timers[s].live /\ ~timers'[s].live)
            => /\ lastCalls' = <<>>
               /\ hwTimer' = hwTimer /\ hwChannel' = hwChannel
               /\ hwTimer'[timers[s].instance].configured
               /\ callerTimers' = callerTimers \cup {timers[s].instance}
               /\ channels' = channels
               /\ installed' = installed
       /\ \A c \in ChannelSlots :
            (lastOp'.op = "Channel::release" /\ channels[c].live
                /\ ~channels'[c].live)
            => /\ lastCalls' = <<>>
               /\ hwTimer' = hwTimer /\ hwChannel' = hwChannel
               /\ hwChannel'[channels[c].instance].configured
               /\ lastCommit[c] \in DutyOps \cup {"new"}
               /\ callerChannels' = callerChannels \cup {channels[c].instance}
               /\ callerPins' = callerPins \cup {channels[c].pin}
               /\ timers' = timers
               /\ installed' = installed]_vars

\* C12 witness: a Channel has been released while its channel unit drives a
\* non-zero duty, and the unit still drives it.
C12_Witness ==
    /\ lastOp.op = "Channel::release"
    /\ lastCalls = <<>>
    /\ hwChannel[lastOp.token].configured
    /\ hwChannel[lastOp.token].duty = DutyMAX
    /\ lastOp.token \in callerChannels

\* The part of Channel::new between taking the fade-init lock (line 131) and
\* dropping its guard (line 138, or the early return of line 135).
InFadeSection(th) == pc[th] \in {"check", "install", "unlock"}

\* C13: the fade-init lock is held exactly across the check-and-activate
\* section of Channel::new: a thread is in that section iff it holds the
\* lock, so at most one thread is between reading the flag and setting or
\* leaving it; the lock is free again before the channel-configuration call,
\* so a thread at the configuration step never holds it.
C13_LockCoversOnlyCheckAndActivate ==
    /\ \A th \in Threads : InFadeSection(th) <=> lockHolder = th
    /\ \A t1, t2 \in Threads :
          (InFadeSection(t1) /\ InFadeSection(t2)) => t1 = t2
    /\ \A th \in Threads : pc[th] = "config" => lockHolder # th
    /\ \A th \in Threads : pc[th] \in {"idle", "lock"} => lockHolder # th
    /\ lockHolder \in Threads \cup {None}

\* C13 witness: two Channel::new calls are at the channel-configuration step
\* at the same time, the lock being free.
C13_Witness ==
    /\ \E t1, t2 \in Threads : t1 # t2 /\ pc[t1] = "config" /\ pc[t2] = "config"
    /\ lockHolder = None

\* C14: the fade-init flag starts false; a step turns it true only when that
\* step is a call of ledc_fade_func_install that returned ESP_OK, made by the
\* thread holding the fade-init lock; and no step turns it false again.
C14_FlagSetOnlyByActivationAndNeverReset ==
    /\ ~installed
    /\ [][/\ installed => installed'
          /\ (~installed /\ installed')
             => /\ lastCalls' = <<Call("ledc_fade_func_install", <<0>>, "ESP_OK")>>
                /\ fadeCalls' = fadeCalls + 1
                /\ fadeFails' = fadeFails
                /\ \E th \in Threads :
                      /\ pc[th] = "install" /\ lockHolder = th
                      /\ pc'[th] = "unlock"]_vars

\* C14 witness: the flag is still true after every Channel has gone, the
\* last one by being dropped, with one activation call made in all.
C14_Witness ==
    /\ installed
    /\ fadeCalls = 1
    /\ LiveChannels = {}
    /\ lastOp.op = "drop Channel"
    /\ AllIdle

\* The driver calls that configure a channel or commit a duty.
ChannelCalls == {"ledc_channel_config", "ledc_set_duty_and_update"}

\* C15: whenever a channel-configuration or duty-commit driver call is
\* issued, the fade-init flag is true, i.e. an activation call has succeeded
\* before; so is it whenever a thread stands before the configuration call,
\* a Channel exists or a channel unit has been configured.
C15_NoChannelCallBeforeActivation ==
    /\ \A i \in 1..Len(lastCalls) :
          lastCalls[i].fn \in ChannelCalls => installed /\ FadeSuccesses >= 1
    /\ \A th \in Threads : pc[th] = "config" => installed
    /\ \A c \in ChannelSlots : channels[c].live => installed
    /\ \A tok \in ChannelTokens : hwChannel[tok].configured => installed

\* C15 witness: a channel-configuration call is issued after a first
\* activation call had failed and a second one succeeded.
C15_Witness ==
    /\ lastCalls # <<>>
    /\ lastCalls[1].fn = "ledc_channel_config"
    /\ lastCalls[1].res = "ESP_OK"
    /\ fadeFails >= 1
    /\ installed

\* A step that is a duty operation whose commit call failed.
FailedCommitStep ==
    /\ lastOp'.op \in DutyOps
    /\ lastCalls' # <<>>
    /\ lastCalls'[1].res # "ESP_OK"

\* C16: a duty operation whose commit call fails returns the error at once:
\* exactly one commit attempt was made, the hardware duty is what it was, and
\* the calling thread is not left inside the operation. After a failing
\* set_duty(d) the cached duty is already d; after a failing enable or
\* disable the cache is what it was.
C16_FailedCommitNoRetryHardwareUnchanged ==
    [][FailedCommitStep =>
         /\ lastOp'.ret = "Err"
         /\ Len(lastCalls') = 1
         /\ lastCalls'[1].fn = "ledc_set_duty_and_update"
         /\ hwChannel' = hwChannel /\ hwTimer' = hwTimer
         /\ pc' = pc /\ frame' = frame
         /\ \A c \in ChannelSlots : \A d \in DutyInputs :
               (lastOp'.slot = c /\ lastOp'.arg = d /\ lastOp'.op = "set_duty")
               => channels' = [channels EXCEPT ![c].duty = d]
         /\ lastOp'.op \in {"enable", "disable"} => channels' = channels]_vars

\* C16 witness: set_duty(255) has failed on a Channel whose hardware duty is
\* 0: the cache reads 255, the hardware still 0.
C16_Witness ==
    /\ lastOp.op = "set_duty" /\ lastOp.ret = "Err" /\ lastOp.arg = DutyMAX
    /\ Len(lastCalls) = 1
    /\ channels[lastOp.slot].live
    /\ get_duty(lastOp.slot) = DutyMAX
    /\ hwChannel[lastOp.token].duty = 0

\* C17: for every live Channel all of whose commits so far succeeded, the
\* duty of its channel unit is the cached duty when the last committing
\* operation was set_duty or enable, and 0 when it was disable or
\* Channel::new.
C17_HardwareDutyFollowsLastCommit ==
    \A c \in ChannelSlots :
        (channels[c].live /\ ~commitFailed[c])
        => /\ lastCommit[c] \in {"new", "set_duty", "enable", "disable"}
           /\ hwChannel[channels[c].instance].configured
           /\ hwChannel[channels[c].instance].duty =
                 IF lastCommit[c] \in {"set_duty", "enable"}
                 THEN get_duty(c)
                 ELSE 0

\* C17 witness: two live Channels with cached duty 255 and no failed commit:
\* one was enabled last and its unit drives 255, the other was disabled last
\* and its unit drives 0.
C17_Witness ==
    \E c \in ChannelSlots :
        /\ channels[c].live /\ ~commitFailed[c]
        /\ lastCommit[c] = "enable"
        /\ lastOp.op = "enable" /\ lastOp.slot = c
        /\ get_duty(c) = DutyMAX
        /\ hwChannel[channels[c].instance].duty = DutyMAX
        /\ \E c2 \in ChannelSlots :
              /\ c2 # c /\ channels[c2].live /\ ~commitFailed[c2]
              /\ lastCommit[c2] = "disable"
              /\ get_duty(c2) = DutyMAX
              /\ hwChannel[channels[c2].instance].duty = 0

\* Number of places a pin is held in: the caller, a live Channel, a running
\* Channel::new.
PinHolders(p) ==
    (IF p \in callerPins THEN 1 ELSE 0)
    + Cardinality({s \in ChannelSlots : channels[s].live /\ channels[s].pin = p})
    + Cardinality({th \in Threads : frame[th].active /\ frame[th].pin = p})

\* A step in which the Channel::new of thread th returns an error.
ChannelNewFails(th) ==
    /\ pc[th] \in {"install", "config"} /\ pc'[th] = "idle"
    /\ lastOp'.op = "Channel::new" /\ lastOp'.ret = "Err"

\* C18: a failed constructor consumes what was passed to it. After a failed
\* Timer::new the timer token is held by nobody; after a failed Channel::new
\* (at activation or at configuration) the channel token and the pin are held
\* by nobody. A token or pin held by nobody stays so, and no Timer::new or
\* Channel::new can be called with it.
C18_FailedConstructorConsumesResources ==
    /\ [](registryCreated =>
            /\ \A t \in TimerTokens : TimerHolders(t) = 0 =>
                  ~ENABLED (\E th \in Threads, m \in SpeedModes,
                               f \in Frequencies, r \in DriverResults :
                                  TimerNew(th, t, m, f, r))
            /\ \A c \in ChannelTokens : ChannelHolders(c) = 0 =>
                  ~ENABLED (\E th \in Threads, ts \in TimerSlots, p \in Pins :
                                  ChannelNewBegin(th, c, ts, p))
            /\ \A p \in Pins : PinHolders(p) = 0 =>
                  ~ENABLED (\E th \in Threads, ts \in TimerSlots,
                               c \in ChannelTokens :
                                  ChannelNewBegin(th, c, ts, p)))
    /\ [][/\ \A t \in TimerTokens :
                (/\ t \in callerTimers
                 /\ lastOp'.op = "Timer::new" /\ lastOp'.token = t
                 /\ lastOp'.ret = "Err")
                => TimerHolders(t)' = 0
          /\ \A th \in Threads : \A c \in ChannelTokens : \A p \in Pins :
                (/\ ChannelNewFails(th)
                 /\ frame[th].instance = c /\ frame[th].pin = p)
                => /\ ChannelHolders(c)' = 0
                   /\ PinHolders(p)' = 0
          /\ registryCreated =>
                /\ \A t \in TimerTokens :
                      TimerHolders(t) = 0 => TimerHolders(t)' = 0
                /\ \A c \in ChannelTokens :
                      ChannelHolders(c) = 0 => ChannelHolders(c)' = 0
                /\ \A p \in Pins :
                      PinHolders(p) = 0 => PinHolders(p)' = 0]_vars

\* C18 witness: a Channel::new has failed at the activation call and its
\* channel token and a pin are held by nobody.
C18_Witness ==
    /\ lastOp.op = "Channel::new" /\ lastOp.ret = "Err"
    /\ lastCalls[1].fn = "ledc_fade_func_install"
    /\ ChannelHolders(lastOp.token) = 0
    /\ \E p \in Pins : PinHolders(p) = 0
    /\ \E p \in Pins : PinHolders(p) = 1
    /\ AllIdle

\* C19 (as stated): under weak fairness of every thread, every Channel::new
\* that has been called eventually returns.
C19_EveryChannelNewReturns ==
    \A th \in Threads : (pc[th] # "idle") ~> (pc[th] = "idle")

\* C19 (amended): under weak fairness of every thread, the fade-init lock is
\* always released again, also when the activation call fails and
\* Channel::new returns early, and every Channel::new that has got the lock
\* eventually returns; no returned Channel::new leaves the lock held.  A
\* Channel::new waiting for the lock returns as well when the lock is handed
\* out fairly (strong fairness of the acquisition): weak fairness alone lets
\* other threads take the lock again and again ahead of it.
C19_LockReleasedAndHolderReturns ==
    /\ (\A th \in Threads : SF_vars(ChannelNewLock(th)))
          => (\A th \in Threads : (pc[th] = "lock") ~> (pc[th] = "idle"))
    /\ \A th \in Threads : (lockHolder = th) ~> (lockHolder = None)
    /\ \A th \in Threads : (InFadeSection(th) \/ pc[th] = "config")
                              ~> (pc[th] = "idle")
    /\ [](AllIdle => lockHolder = None)
    /\ [][\A th \in Threads :
             (pc[th] = "install" /\ pc'[th] = "idle") => lockHolder' = None]_vars

\* C19 witness: a Channel::new has returned early from a failed activation
\* call while another Channel::new waits for the lock, which is free.
C19_Witness ==
    /\ lastOp.op = "Channel::new" /\ lastOp.ret = "Err"
    /\ lastCalls[1].fn = "ledc_fade_func_install"
    /\ lockHolder = None
    /\ \E th \in Threads : pc[th] = "lock"

====
